---- MODULE Spec2Model ----
(***************************************************************************)
(* Model of the 54-sticker cube engine of src/cube: the immutable          *)
(* CubeState value (state.py) and the move engine (moves.py).              *)
(*                                                                         *)
(* A cube is a function from the positions 0..53 to sticker labels, in     *)
(* URFDLB order as in state.py.  A move name is the tuple of its           *)
(* characters (<<"R","'">> for R'), so that the string tests of            *)
(* invert_move (endswith, slicing, concatenation) are modelled by what     *)
(* they do.                                                                *)
(***************************************************************************)
EXTENDS Integers, Sequences, FiniteSets, TLC

VARIABLES
  start,    \* the state the caller began with
  cube,     \* the state the caller holds now
  hist,     \* the names passed to apply_move so far, in order
  phase,    \* what the caller is doing
  pattern,  \* the sequence a test loop applies again and again
  reps,     \* completed iterations of that loop
  call,     \* the last call made: its name and its arguments
  result,   \* what the last call returned, or the exception it raised
  heap,     \* the CubeState objects created so far, by identity
  threads,  \* the frames of the threads that apply moves to a shared state
  registry, \* the dict MOVE_FUNCTIONS of cube/moves.py, as the threads see it
  queue,    \* the deque of SimpleSolver.solve
  visited   \* the visited set of SimpleSolver.solve

vars ==
  <<start, cube, hist, phase, pattern, reps, call, result, heap,
    threads, registry, queue, visited>>

(***************************************************************************)
(* Bounds of the model.                                                    *)
(***************************************************************************)
\* longest sequence of single moves applied to a starting state
MaxMoves == 3

\* iterations of the longest test loop: range(105) in test_sexy_move_period
MaxReps == 105

(***************************************************************************)
(* state.py                                                                *)
(***************************************************************************)
Positions == 0..53

FACES == <<"U", "R", "F", "D", "L", "B">>

SOLVED_COLORS ==
  [f \in {"U", "R", "F", "D", "L", "B"} |->
     CASE f = "U" -> "W"
       [] f = "R" -> "R"
       [] f = "F" -> "G"
       [] f = "D" -> "Y"
       [] f = "L" -> "O"
       [] f = "B" -> "B"]

FACE_OFFSETS ==
  [f \in {"U", "R", "F", "D", "L", "B"} |->
     CASE f = "U" -> 0
       [] f = "R" -> 9
       [] f = "F" -> 18
       [] f = "D" -> 27
       [] f = "L" -> 36
       [] f = "B" -> 45]

FACE_RANGES ==
  [f \in {"U", "R", "F", "D", "L", "B"} |-> FACE_OFFSETS[f]..(FACE_OFFSETS[f] + 8)]

CENTER_POSITIONS == <<4, 13, 22, 31, 40, 49>>

\* Python's None
None == <<"None">>

\* A sticker container (a list or a tuple) is a function on 0..len-1.
len(stickers) == Cardinality(DOMAIN stickers)

\* CubeState._create_solved_stickers: nine stickers of the face's colour for
\* each face in the order U, R, F, D, L, B.
create_solved_stickers ==
  [i \in Positions |-> SOLVED_COLORS[FACES[(i \div 9) + 1]]]

\* A raised exception is modelled as the value the call yields: a tuple, which
\* no cube (a function on 0..53) equals.
\* ValueError(f"Expected 54 stickers, got {len(stickers)}")
ShapeError(n) == <<"ValueError", "Expected 54 stickers", n>>

\* a constructor that keeps the first 54 stickers of a longer container
CubeState_truncating(stickers) ==
  IF stickers = None THEN create_solved_stickers
  ELSE IF len(stickers) < 54 THEN ShapeError(len(stickers))
  ELSE [i \in Positions |-> stickers[i]]

\* CubeState.__init__: None gives the solved stickers; a container of any
\* length other than 54 is rejected; a container of length 54 is stored as
\* the tuple of its elements, whatever they are.
CubeState(stickers) ==
  IF stickers = None THEN create_solved_stickers
  ELSE IF len(stickers) # 54 THEN ShapeError(len(stickers))
  ELSE [i \in 0..(len(stickers) - 1) |-> stickers[i]]

\* CubeState.solved
solved == CubeState(create_solved_stickers)

\* CubeState.is_solved: the faces are scanned in the order of FACE_RANGES;
\* center_idx is the fifth index of the face's range, and the first sticker
\* that differs from the sticker at center_idx ends the scan with False.
RECURSIVE is_solved_from(_, _)
is_solved_from(c, k) ==
  IF k > Len(FACES) THEN TRUE
  ELSE LET face_range == FACE_RANGES[FACES[k]]
           center_idx == CHOOSE i \in face_range :
                           Cardinality({j \in face_range : j < i}) = 4
           center_color == c[center_idx]
       IN  IF \E idx \in face_range : c[idx] # center_color
           THEN FALSE
           ELSE is_solved_from(c, k + 1)

\* a test against the canonical colour of each face
is_solved_canonical(c) ==
  \A f \in DOMAIN FACE_RANGES :
    \A idx \in FACE_RANGES[f] : c[idx] = SOLVED_COLORS[f]

is_solved(c) == is_solved_from(c, 1)

\* CubeState.validate: the error messages (as a set of tags: one per colour
\* whose count is not 9, one if there are not 6 colours, one per wrong
\* center) and the flag len(errors) == 0.
color_counts(c) ==
  [col \in {c[i] : i \in Positions} |-> Cardinality({i \in Positions : c[i] = col})]

expected_centers ==
  [idx \in {4, 13, 22, 31, 40, 49} |->
     SOLVED_COLORS[FACES[(idx \div 9) + 1]]]

\* a validation that stops after the colour counts
validate_errors_counts_only(c) ==
  {<<"count", col>> : col \in {k \in DOMAIN color_counts(c) : color_counts(c)[k] # 9}}
  \cup (IF Cardinality(DOMAIN color_counts(c)) # 6 THEN {<<"colors">>} ELSE {})

validate_errors(c) ==
  {<<"count", col>> : col \in {k \in DOMAIN color_counts(c) : color_counts(c)[k] # 9}}
  \cup (IF Cardinality(DOMAIN color_counts(c)) # 6 THEN {<<"colors">>} ELSE {})
  \cup {<<"center", idx>> : idx \in {k \in DOMAIN expected_centers : c[k] # expected_centers[k]}}

validate(c) == <<validate_errors(c) = {}, validate_errors(c)>>

\* ValueError(f"Invalid face: ...") and ValueError(f"Invalid position: ...")
FaceError(face) == <<"ValueError", "Invalid face", face>>

PositionError(pos) == <<"ValueError", "Invalid position", pos>>

\* CubeState.get_sticker
get_sticker(c, face, pos) ==
  IF face \notin DOMAIN FACE_OFFSETS THEN FaceError(face)
  ELSE IF ~ (0 <= pos /\ pos <= 8) THEN PositionError(pos)
  ELSE c[FACE_OFFSETS[face] + pos]

\* CubeState.get_face: the tuple of the stickers of range(start, start + 9)
get_face(c, face) ==
  IF face \notin DOMAIN FACE_RANGES THEN FaceError(face)
  ELSE [k \in 0..8 |->
          c[CHOOSE i \in FACE_RANGES[face] :
              Cardinality({j \in FACE_RANGES[face] : j < i}) = k]]

\* a with_sticker that checks only the lower end of pos
with_sticker_no_upper(c, face, pos, color) ==
  IF face \notin DOMAIN FACE_OFFSETS THEN FaceError(face)
  ELSE IF ~ (0 <= pos) THEN PositionError(pos)
  ELSE CubeState([c EXCEPT ![(FACE_OFFSETS[face] + pos) % 54] = color])

\* CubeState.with_sticker: a copy of the stickers with one slot replaced,
\* handed to the constructor
with_sticker(c, face, pos, color) ==
  IF face \notin DOMAIN FACE_OFFSETS THEN FaceError(face)
  ELSE IF ~ (0 <= pos /\ pos <= 8) THEN PositionError(pos)
  ELSE CubeState([c EXCEPT ![FACE_OFFSETS[face] + pos] = color])

(***************************************************************************)
(* moves.py: the permutations                                              *)
(***************************************************************************)
\* a gather that reads the permutation one slot off
apply_permutation_shifted(c, perm) ==
  CubeState([i \in Positions |-> c[perm[(i + 1) % 54]]])

\* _apply_permutation: new_stickers[i] = old_stickers[perm[i]]
apply_permutation(c, perm) ==
  CubeState([i \in Positions |-> c[perm[i]]])

\* a face rotation whose slot 2 reads the source of slot 0 again
rotate_face_cw_duplicate(face_offset) ==
  [[i \in Positions |-> i] EXCEPT
     ![face_offset + 0] = face_offset + 6,
     ![face_offset + 2] = face_offset + 6,
     ![face_offset + 8] = face_offset + 2,
     ![face_offset + 6] = face_offset + 8,
     ![face_offset + 1] = face_offset + 3,
     ![face_offset + 5] = face_offset + 1,
     ![face_offset + 7] = face_offset + 5,
     ![face_offset + 3] = face_offset + 7]

\* _rotate_face_cw: the identity on 0..53 with the eight outer positions of
\* the face at face_offset overwritten.
rotate_face_cw(face_offset) ==
  [[i \in Positions |-> i] EXCEPT
     ![face_offset + 0] = face_offset + 6,
     ![face_offset + 2] = face_offset + 0,
     ![face_offset + 8] = face_offset + 2,
     ![face_offset + 6] = face_offset + 8,
     ![face_offset + 1] = face_offset + 3,
     ![face_offset + 5] = face_offset + 1,
     ![face_offset + 7] = face_offset + 5,
     ![face_offset + 3] = face_offset + 7]

\* a U turn that carries the two layers below along: the whole cube turns
perm_U_whole_cube ==
  [i \in Positions |->
     IF i \in 18..26 THEN 9 + (i - 18)
     ELSE IF i \in 36..44 THEN 18 + (i - 36)
     ELSE IF i \in 45..53 THEN 36 + (i - 45)
     ELSE IF i \in 9..17 THEN 45 + (i - 9)
     ELSE rotate_face_cw(0)[i]]

\* the permutation apply_U builds: the loop over i in range(3)
perm_U ==
  [i \in Positions |->
     IF i \in 9..11 THEN 18 + (i - 9)
     ELSE IF i \in 45..47 THEN 9 + (i - 45)
     ELSE IF i \in 36..38 THEN 45 + (i - 36)
     ELSE IF i \in 18..20 THEN 36 + (i - 18)
     ELSE rotate_face_cw(0)[i]]

perm_R ==
  [rotate_face_cw(9) EXCEPT
     ![20] = 2,  ![23] = 5,  ![26] = 8,
     ![29] = 20, ![32] = 23, ![35] = 26,
     ![51] = 29, ![48] = 32, ![45] = 35,
     ![2] = 51,  ![5] = 48,  ![8] = 45]

\* an F turn that only exchanges the bottom row of U with the top row of D
perm_F_up_down_swap ==
  [rotate_face_cw(18) EXCEPT
     ![6] = 29,  ![7] = 28,  ![8] = 27,
     ![29] = 6,  ![28] = 7,  ![27] = 8]

perm_F ==
  [rotate_face_cw(18) EXCEPT
     ![9] = 6,   ![12] = 7,  ![15] = 8,
     ![29] = 9,  ![28] = 12, ![27] = 15,
     ![38] = 29, ![41] = 28, ![44] = 27,
     ![6] = 38,  ![7] = 41,  ![8] = 44]

\* a D turn that cycles the top rows of F, L, B, R instead of the bottom rows
perm_D_top_rows ==
  [i \in Positions |->
     IF i \in 36..38 THEN 18 + (i - 36)
     ELSE IF i \in 45..47 THEN 36 + (i - 45)
     ELSE IF i \in 9..11 THEN 45 + (i - 9)
     ELSE IF i \in 18..20 THEN 9 + (i - 18)
     ELSE [[j \in Positions |-> j] EXCEPT
             ![27] = 33, ![29] = 27, ![35] = 29, ![33] = 35,
             ![28] = 30, ![32] = 28, ![34] = 32, ![30] = 34][i]]

\* the permutation apply_D builds: the loop over i in range(3)
perm_D ==
  [i \in Positions |->
     IF i \in 42..44 THEN 24 + (i - 42)
     ELSE IF i \in 51..53 THEN 42 + (i - 51)
     ELSE IF i \in 15..17 THEN 51 + (i - 15)
     ELSE IF i \in 24..26 THEN 15 + (i - 24)
     ELSE rotate_face_cw(27)[i]]

perm_L ==
  [rotate_face_cw(36) EXCEPT
     ![18] = 0,  ![21] = 3,  ![24] = 6,
     ![27] = 18, ![30] = 21, ![33] = 24,
     ![53] = 33, ![50] = 30, ![47] = 27,
     ![0] = 53,  ![3] = 50,  ![6] = 47]

perm_B ==
  [rotate_face_cw(45) EXCEPT
     ![36] = 2,  ![39] = 1,  ![42] = 0,
     ![35] = 42, ![34] = 39, ![33] = 36,
     ![11] = 33, ![14] = 34, ![17] = 35,
     ![0] = 17,  ![1] = 14,  ![2] = 11]

apply_U(c) == apply_permutation(c, perm_U)
\* a U' made of two U turns instead of three
apply_U_prime_twice(c) == apply_U(apply_U(c))

apply_U_prime(c) == apply_U(apply_U(apply_U(c)))
apply_U2(c) == apply_U(apply_U(c))

\* an R that turns the stickers of the R face and leaves the four sides
apply_R_face_only(c) == apply_permutation(c, rotate_face_cw(9))

apply_R(c) == apply_permutation(c, perm_R)

\* an R' written as its own table, with the B column not reversed
apply_R_prime_table(c) ==
  apply_permutation(c,
    [[i \in Positions |-> i] EXCEPT
       ![15] = 9,  ![9] = 11,  ![11] = 17, ![17] = 15,
       ![12] = 10, ![10] = 14, ![14] = 16, ![16] = 12,
       ![2] = 20,  ![5] = 23,  ![8] = 26,
       ![20] = 29, ![23] = 32, ![26] = 35,
       ![29] = 45, ![32] = 48, ![35] = 51,
       ![45] = 2,  ![48] = 5,  ![51] = 8])

apply_R_prime(c) == apply_R(apply_R(apply_R(c)))
apply_R2(c) == apply_R(apply_R(c))

apply_F(c) == apply_permutation(c, perm_F)
apply_F_prime(c) == apply_F(apply_F(apply_F(c)))
\* an F2 made of one F turn instead of two
apply_F2_once(c) == apply_F(c)

apply_F2(c) == apply_F(apply_F(c))

apply_D(c) == apply_permutation(c, perm_D)
apply_D_prime(c) == apply_D(apply_D(apply_D(c)))
apply_D2(c) == apply_D(apply_D(c))

apply_L(c) == apply_permutation(c, perm_L)
apply_L_prime(c) == apply_L(apply_L(apply_L(c)))
apply_L2(c) == apply_L(apply_L(c))

apply_B(c) == apply_permutation(c, perm_B)
apply_B_prime(c) == apply_B(apply_B(apply_B(c)))

\* a double turn of B that turns once
apply_B2_once(c) == apply_B(c)

apply_B2(c) == apply_B(apply_B(c))

(***************************************************************************)
(* moves.py: dispatch, sequences, inversion                                *)
(***************************************************************************)
BASIC_MOVES == {<<"U">>, <<"R">>, <<"F">>, <<"D">>, <<"L">>, <<"B">>}

\* the keys of MOVE_FUNCTIONS
MOVE_NAMES ==
  BASIC_MOVES
  \cup {Append(m, "'") : m \in BASIC_MOVES}
  \cup {Append(m, "2") : m \in BASIC_MOVES}

\* MOVE_FUNCTIONS[move](cube)
MOVE_FUNCTIONS(move, c) ==
  CASE move = <<"U">>      -> apply_U(c)
    [] move = <<"U", "'">> -> apply_U_prime(c)
    [] move = <<"U", "2">> -> apply_U2(c)
    [] move = <<"R">>      -> apply_R(c)
    [] move = <<"R", "'">> -> apply_R_prime(c)
    [] move = <<"R", "2">> -> apply_R2(c)
    [] move = <<"F">>      -> apply_F(c)
    [] move = <<"F", "'">> -> apply_F_prime(c)
    [] move = <<"F", "2">> -> apply_F2(c)
    [] move = <<"D">>      -> apply_D(c)
    [] move = <<"D", "'">> -> apply_D_prime(c)
    [] move = <<"D", "2">> -> apply_D2(c)
    [] move = <<"L">>      -> apply_L(c)
    [] move = <<"L", "'">> -> apply_L_prime(c)
    [] move = <<"L", "2">> -> apply_L2(c)
    [] move = <<"B">>      -> apply_B(c)
    [] move = <<"B", "'">> -> apply_B_prime(c)
    [] move = <<"B", "2">> -> apply_B2(c)

\* the code points of the characters that occur in the names
ord(ch) ==
  CASE ch = "'" -> 39
    [] ch = "2" -> 50
    [] ch = "3" -> 51
    [] ch = "B" -> 66
    [] ch = "D" -> 68
    [] ch = "F" -> 70
    [] ch = "L" -> 76
    [] ch = "R" -> 82
    [] ch = "U" -> 85
    [] ch = "X" -> 88
    [] ch = "u" -> 117

\* a < b on strings: the first differing character decides, a proper prefix
\* is smaller
RECURSIVE str_lt(_, _)
str_lt(a, b) ==
  IF b = <<>> THEN FALSE
  ELSE IF a = <<>> THEN TRUE
  ELSE IF Head(a) # Head(b) THEN ord(Head(a)) < ord(Head(b))
  ELSE str_lt(Tail(a), Tail(b))

\* sorted(names)
RECURSIVE sorted(_)
sorted(names) ==
  IF names = {} THEN <<>>
  ELSE LET least == CHOOSE x \in names : \A y \in names : x = y \/ str_lt(x, y)
       IN  <<least>> \o sorted(names \ {least})

\* the ValueError of apply_move: its message names the move and lists
\* sorted(MOVE_FUNCTIONS.keys())
valid_names == sorted(MOVE_NAMES)

InvalidMove(move) == <<"ValueError", "Invalid move", move, valid_names>>

\* a value is a cube, and not a raised exception, when it is indexed by the
\* 54 positions
IsCube(x) == DOMAIN x = Positions

\* an apply_move that ignores a name it does not know
apply_move_lenient(c, move) ==
  IF move \notin MOVE_NAMES THEN c ELSE MOVE_FUNCTIONS(move, c)

apply_move(c, move) ==
  IF move \notin MOVE_NAMES THEN InvalidMove(move) ELSE MOVE_FUNCTIONS(move, c)

RECURSIVE apply_sequence_partial(_, _)
RECURSIVE apply_sequence(_, _)
\* a fold that stops at a name it cannot apply and returns the state so far
apply_sequence_partial(c, moves) ==
  IF moves = <<>> THEN c
  ELSE IF ~ IsCube(apply_move(c, Head(moves))) THEN c
  ELSE apply_sequence_partial(apply_move(c, Head(moves)), Tail(moves))

\* apply_sequence: the left fold of apply_move; the error of the first
\* invalid name propagates.
apply_sequence(c, moves) ==
  IF moves = <<>> THEN c
  ELSE IF ~ IsCube(apply_move(c, Head(moves))) THEN apply_move(c, Head(moves))
  ELSE apply_sequence(apply_move(c, Head(moves)), Tail(moves))

endswith(move, ch) == Len(move) > 0 /\ move[Len(move)] = ch

\* an invert_move without the branch for double turns
invert_move_no_double(move) ==
  IF endswith(move, "'") THEN SubSeq(move, 1, Len(move) - 1)
  ELSE Append(move, "'")

invert_move(move) ==
  IF endswith(move, "'") THEN SubSeq(move, 1, Len(move) - 1)
  ELSE IF endswith(move, "2") THEN move
  ELSE Append(move, "'")

\* an invert_sequence that loses the first move
invert_sequence_short(moves) ==
  [i \in 1..(Len(moves) - 1) |-> invert_move(moves[Len(moves) + 1 - i])]

invert_sequence(moves) ==
  [i \in 1..Len(moves) |-> invert_move(moves[Len(moves) + 1 - i])]

(***************************************************************************)
(* The starting states: the solved cube and the cube of 54 pairwise        *)
(* distinct labels of the bijection tests.                                 *)
(***************************************************************************)
unique_labels == CubeState([i \in Positions |-> ToString(i)])

\* names outside the vocabulary that a caller may pass: 'X', 'R3', 'u', ''
InvalidNames == {<<"X">>, <<"R", "3">>, <<"u">>, <<>>}

MoveInputs == MOVE_NAMES \cup InvalidNames

StartStates == {solved, unique_labels}

(***************************************************************************)
(* The sequences of tests/test_moves.py (TestKnownPatterns) and the        *)
(* one-move sequences of the identity tests.                               *)
(***************************************************************************)
sexy_move == <<<<"R">>, <<"U">>, <<"R", "'">>, <<"U", "'">>>>

checkerboard ==
  <<<<"R", "2">>, <<"L", "2">>, <<"U", "2">>, <<"D", "2">>, <<"F", "2">>, <<"B", "2">>>>

\* the 21 moves of test_superflip_is_self_inverse
superflip ==
  << <<"U">>, <<"R", "2">>, <<"F">>, <<"B">>, <<"R">>, <<"B", "2">>, <<"R">>,
     <<"U", "2">>, <<"L">>, <<"B", "2">>, <<"R">>, <<"U", "'">>, <<"D">>,
     <<"R", "'">>, <<"B", "2">>, <<"F">>, <<"R">>, <<"L">>, <<"B", "2">>,
     <<"U", "2">>, <<"F", "2">> >>

Patterns == {sexy_move, checkerboard, superflip} \cup {<<m>> : m \in MOVE_NAMES}

(***************************************************************************)
(* Specification Spec: a caller folds apply_move over a sequence of names, *)
(* and may then undo it with apply_sequence(., invert_sequence(.)).        *)
(***************************************************************************)
Init ==
  /\ start \in StartStates
  /\ cube = start
  /\ hist = <<>>
  /\ phase = "applying"
  /\ pattern = <<>>
  /\ reps = 0
  /\ call = <<"init">>
  /\ result = None
  /\ heap = <<>>
  /\ threads = <<>>
  /\ registry = <<>>
  /\ queue = <<>>
  /\ visited = {}

\* cube = apply_move(cube, m): the assignment happens only if the call
\* returns; a raised ValueError ends the caller and leaves cube as it was.
ApplyMove(m) ==
  /\ phase = "applying"
  /\ Len(hist) < MaxMoves
  /\ call' = <<"apply_move", m>>
  /\ IF IsCube(apply_move(cube, m))
     THEN /\ cube' = apply_move(cube, m)
          /\ hist' = Append(hist, m)
          /\ result' = None
          /\ UNCHANGED phase
     ELSE /\ result' = apply_move(cube, m)
          /\ phase' = "raised"
          /\ UNCHANGED <<cube, hist>>
  /\ UNCHANGED <<threads, registry, queue, visited>>
  /\ UNCHANGED <<start, pattern, reps, heap>>

Undo ==
  /\ phase = "applying"
  /\ cube' = apply_sequence(cube, invert_sequence(hist))
  /\ phase' = "undone"
  /\ UNCHANGED <<threads, registry, queue, visited>>
  /\ UNCHANGED <<start, hist, pattern, reps, call, result, heap>>

\* inverse = invert_sequence(sequence)
Invert ==
  /\ phase = "applying"
  /\ call' = <<"invert_sequence", hist>>
  /\ result' = invert_sequence(hist)
  /\ phase' = "inverted"
  /\ UNCHANGED <<threads, registry, queue, visited>>
  /\ UNCHANGED <<start, cube, hist, pattern, reps, heap>>

\* double_inverted = invert_sequence(inverse)
InvertAgain ==
  /\ phase = "inverted"
  /\ call' = <<"invert_sequence", result>>
  /\ result' = invert_sequence(result)
  /\ phase' = "inverted twice"
  /\ UNCHANGED <<threads, registry, queue, visited>>
  /\ UNCHANGED <<start, cube, hist, pattern, reps, heap>>

Next ==
  \/ \E m \in MoveInputs : ApplyMove(m)
  \/ Undo
  \/ Invert
  \/ InvertAgain

Spec == Init /\ [][Next]_vars

(***************************************************************************)
(* Specification SpecRepeat: the loops of the tests, which apply one move  *)
(* (apply_move) or one sequence (apply_sequence) again and again.          *)
(***************************************************************************)
InitRepeat ==
  /\ start \in StartStates
  /\ cube = start
  /\ hist = <<>>
  /\ phase = "repeating"
  /\ pattern \in Patterns
  /\ reps = 0
  /\ call = <<"init">>
  /\ result = None
  /\ heap = <<>>
  /\ threads = <<>>
  /\ registry = <<>>
  /\ queue = <<>>
  /\ visited = {}

RepeatMove ==
  /\ phase = "repeating"
  /\ Len(pattern) = 1
  /\ reps < MaxReps
  /\ cube' = apply_move(cube, pattern[1])
  /\ reps' = reps + 1
  /\ UNCHANGED <<threads, registry, queue, visited>>
  /\ UNCHANGED <<start, hist, phase, pattern, call, result, heap>>

RepeatSequence ==
  /\ phase = "repeating"
  /\ Len(pattern) > 1
  /\ reps < MaxReps
  /\ cube' = apply_sequence(cube, pattern)
  /\ reps' = reps + 1
  /\ UNCHANGED <<threads, registry, queue, visited>>
  /\ UNCHANGED <<start, hist, phase, pattern, call, result, heap>>

NextRepeat ==
  \/ RepeatMove
  \/ RepeatSequence

SpecRepeat == InitRepeat /\ [][NextRepeat]_vars

TypeOK ==
  /\ start \in StartStates
  /\ DOMAIN cube = Positions
  /\ Len(hist) <= MaxMoves
  /\ phase \in {"applying", "undone", "repeating", "raised", "inverted",
                "inverted twice", "heap"}
  /\ reps \in 0..MaxReps

(***************************************************************************)
(* Helpers of the properties.                                              *)
(***************************************************************************)
\* the state the caller held k moves ago
Before(k) == apply_sequence(start, SubSeq(hist, 1, Len(hist) - k))

\* the face letter of a move name
FaceOf(m) == m[1]

OPPOSITE_PAIRS == {<<"U", "D">>, <<"R", "L">>, <<"F", "B">>}

Opposite(a, b) ==
  <<FaceOf(a), FaceOf(b)>> \in OPPOSITE_PAIRS \/ <<FaceOf(b), FaceOf(a)>> \in OPPOSITE_PAIRS

\* the positions whose sticker a move replaces, read off the cube of 54
\* distinct labels
MovedPositions(m) ==
  {i \in Positions : apply_move(unique_labels, m)[i] # unique_labels[i]}

\* cube c holds every sticker of cube s exactly once
SameLabelsOnce(c, s) ==
  \A i \in Positions : Cardinality({j \in Positions : c[j] = s[i]}) = 1

(***************************************************************************)
(* C1.  Four applications of a base move give back the state they started  *)
(* from, for every starting state.  (SpecRepeat)                           *)
(***************************************************************************)
C1_FourthPowerIsIdentity ==
  (phase = "repeating" /\ Len(pattern) = 1 /\ pattern[1] \in BASIC_MOVES /\ reps = 4)
    => cube = start

(***************************************************************************)
(* C2.  Applying a sequence and then its inverted sequence gives back the  *)
(* state the sequence was applied to, for every starting state.  (Spec)    *)
(***************************************************************************)
C2_InverseSequenceRestores ==
  phase = "undone" => cube = start

(***************************************************************************)
(* C3.  A base move followed by its prime form, and the prime form         *)
(* followed by the base move, give back the state they were applied to.    *)
(* (Spec)                                                                  *)
(***************************************************************************)
C3_MoveThenInverseIsIdentity ==
  (phase = "applying" /\ Len(hist) >= 2) =>
    \A M \in BASIC_MOVES :
      (\/ SubSeq(hist, Len(hist) - 1, Len(hist)) = <<M, Append(M, "'")>>
       \/ SubSeq(hist, Len(hist) - 1, Len(hist)) = <<Append(M, "'"), M>>)
        => cube = Before(2)

(***************************************************************************)
(* C4.  A double-turn move applied twice gives back the state it was       *)
(* applied to, for every starting state.  (SpecRepeat)                     *)
(***************************************************************************)
C4_DoubleTurnIsInvolution ==
  (phase = "repeating" /\ Len(pattern) = 1 /\ endswith(pattern[1], "2") /\ reps = 2)
    => cube = start

(***************************************************************************)
(* C5.  Two moves on opposite faces commute: whenever the last two moves   *)
(* were on opposite faces, the state is the one the two moves give in the  *)
(* other order; and the two base moves replace disjoint sets of positions. *)
(* (Spec)                                                                  *)
(***************************************************************************)
C5_OppositeFacesCommute ==
  (phase = "applying" /\ Len(hist) >= 2
     /\ Opposite(hist[Len(hist) - 1], hist[Len(hist)])) =>
    /\ cube = apply_move(apply_move(Before(2), hist[Len(hist)]), hist[Len(hist) - 1])
    /\ MovedPositions(<<FaceOf(hist[Len(hist) - 1])>>)
         \cap MovedPositions(<<FaceOf(hist[Len(hist)])>>) = {}

C5_Witness ==
  /\ phase = "applying"
  /\ start = unique_labels
  /\ hist = <<<<"R", "'">>, <<"L", "2">>>>
  /\ cube # start

(***************************************************************************)
(* C6.  Every move is a bijection of the positions: applied to the cube of *)
(* 54 distinct labels it yields a cube holding each label exactly once.    *)
(* (Spec)                                                                  *)
(***************************************************************************)
C6_MoveIsBijection ==
  (phase = "applying" /\ start = unique_labels /\ Len(hist) >= 1)
    => SameLabelsOnce(cube, start)

C6_Witness ==
  /\ phase = "applying"
  /\ start = unique_labels
  /\ hist = <<<<"L", "'">>>>
  /\ cube # start

(***************************************************************************)
(* C7.  Every state reached from the solved cube holds each of the six     *)
(* colours nine times and the colours W,R,G,Y,O,B at the centers, and      *)
(* validate() returns (True, []).  (Spec)                                  *)
(***************************************************************************)
C7_ReachableStatesValid ==
  start = solved =>
    /\ \A col \in {"W", "R", "G", "Y", "O", "B"} :
         Cardinality({i \in Positions : cube[i] = col}) = 9
    /\ \A k \in 1..6 :
         cube[CENTER_POSITIONS[k]] = <<"W", "R", "G", "Y", "O", "B">>[k]
    /\ validate(cube) = <<TRUE, {}>>

C7_Witness ==
  /\ phase = "applying"
  /\ start = solved
  /\ Len(hist) = MaxMoves
  /\ ~ is_solved(cube)

C9_ScrambleInverseSolved ==
  (phase = "undone" /\ start = solved) => (is_solved(cube) /\ cube = solved)

(***************************************************************************)
(* C10.  [R2, L2, U2, D2, F2, B2] applied twice to the solved cube gives   *)
(* the solved cube.  (SpecRepeat)                                          *)
(***************************************************************************)
C10_CheckerboardTwiceSolved ==
  (phase = "repeating" /\ pattern = checkerboard /\ start = solved /\ reps = 2)
    => cube = solved

C10_Witness ==
  /\ phase = "repeating"
  /\ pattern = checkerboard
  /\ start = solved
  /\ reps = 2

(***************************************************************************)
(* C11.  A prime move is the base move applied three times and a double    *)
(* move is the base move applied twice, on every state.  (Spec)            *)
(***************************************************************************)
C11_DerivedMovesAreCompositions ==
  (phase = "applying" /\ Len(hist) >= 1) =>
    \A M \in BASIC_MOVES :
      /\ hist[Len(hist)] = Append(M, "'") =>
           cube = apply_move(apply_move(apply_move(Before(1), M), M), M)
      /\ hist[Len(hist)] = Append(M, "2") =>
           cube = apply_move(apply_move(Before(1), M), M)

C11_Witness ==
  /\ phase = "applying"
  /\ start = unique_labels
  /\ hist = <<<<"F">>, <<"R", "'">>>>
  /\ cube # Before(1)

(***************************************************************************)
(* C12.  Inverting a sequence of move names twice gives the sequence back. *)
(* (Spec)                                                                  *)
(***************************************************************************)
C12_DoubleInversionIsIdentity ==
  phase = "inverted twice" => result = hist

C12_Witness ==
  /\ phase = "inverted twice"
  /\ hist = <<<<"R">>, <<"U", "'">>, <<"F", "2">>>>
  /\ result = hist

(***************************************************************************)
(* C13.  invert_move maps X to X', X' to X and X2 to X2, staying in the    *)
(* vocabulary and on the same face; the inverted sequence has the length   *)
(* of the sequence and its element i is the inverted element Len+1-i.      *)
(* (Spec)                                                                  *)
(***************************************************************************)
\* the 18 symbols, face by face
Vocabulary ==
  {<<f>> : f \in {"U", "R", "F", "D", "L", "B"}}
  \cup {<<f, "'">> : f \in {"U", "R", "F", "D", "L", "B"}}
  \cup {<<f, "2">> : f \in {"U", "R", "F", "D", "L", "B"}}

\* the syntactic rule, as a table
InverseName(m) ==
  CASE Len(m) = 1 -> <<m[1], "'">>
    [] Len(m) = 2 /\ m[2] = "'" -> <<m[1]>>
    [] Len(m) = 2 /\ m[2] = "2" -> m

C13_InversionIsSyntactic ==
  phase = "inverted" =>
    /\ Len(result) = Len(hist)
    /\ \A i \in 1..Len(hist) :
         /\ result[i] = InverseName(hist[Len(hist) + 1 - i])
         /\ result[i] = invert_move(hist[Len(hist) + 1 - i])
         /\ result[i] \in Vocabulary
         /\ FaceOf(result[i]) = FaceOf(hist[Len(hist) + 1 - i])

C13_Witness ==
  /\ phase = "inverted"
  /\ hist = <<<<"R">>, <<"U", "'">>, <<"F", "2">>>>
  /\ result = <<<<"F", "2">>, <<"U">>, <<"R", "'">>>>

(***************************************************************************)
(* C14.  apply_move returns a state exactly for the 18 symbols; for any    *)
(* other name it raises the error that lists the 18 names, and the         *)
(* caller's state stays what it was.  (Spec)                               *)
(***************************************************************************)
C14_InvalidMoveRaises ==
  /\ (phase = "applying" /\ call[1] = "apply_move") =>
       (call[2] \in Vocabulary /\ IsCube(cube) /\ result = None)
  /\ phase = "raised" =>
       /\ call[1] = "apply_move"
       /\ call[2] \notin Vocabulary
       /\ result[1] = "ValueError"
       /\ result[3] = call[2]
       /\ Len(result[4]) = 18
       /\ {result[4][i] : i \in 1..18} = Vocabulary
       /\ cube = Before(0)
  /\ (phase \in {"applying", "raised"} /\ call[1] = "apply_move") =>
       (phase = "raised" <=> call[2] \notin Vocabulary)

C14_Witness ==
  /\ phase = "raised"
  /\ call = <<"apply_move", <<"R", "3">>>>
  /\ Len(hist) = 2
  /\ cube # start

(***************************************************************************)
(* Specification SpecHeap: a caller holds references to CubeState objects  *)
(* and calls the constructor, the two move functions and the methods of    *)
(* CubeState on them.  heap[i] is the sticker tuple of the i-th object     *)
(* created; call is the last call (name, receiver, arguments) and result   *)
(* what it gave: a reference, a plain value or the exception raised.       *)
(***************************************************************************)
\* objects a caller creates
MaxObjects == 2

Ref(i) == <<"ref", i>>

Value(v) == <<"value", v>>

\* six uniform faces in the colours R, G, Y, O, B, W: no center is canonical
recolored ==
  [i \in Positions |-> <<"R", "G", "Y", "O", "B", "W">>[(i \div 9) + 1]]

\* ['W'] * n
white(n) == [i \in 0..(n - 1) |-> "W"]

StickerInputs == {None, recolored, white(54), white(0), white(53), white(55)}

HeapMoveInputs == {<<"U">>, <<"X">>}

SequenceInputs ==
  { <<>>,
    <<<<"R">>, <<"U", "'">>>>,
    <<<<"R">>, <<"X">>, <<"U">>>>,
    <<<<"R", "3">>, <<"X">>>> }

EdgeFaceInputs == {"U", "B", "X"}

PosInputs == {-1, 0, 8, 9}

EditPosInputs == {-1, 4, 8, 9}

ColorInputs == {"Z"}

\* a method that stores its result in the receiver and returns the receiver
overwrite_self(h, self, r) ==
  IF IsCube(r) THEN <<[h EXCEPT ![self] = r], Ref(self)>> ELSE <<h, r>>

\* What a call on the object h[self] leaves when it has computed r: a raised
\* exception leaves the heap alone; a sticker tuple is the content of a fresh
\* CubeState (the class is frozen, the constructor fills a new instance).
new_object(h, self, r) ==
  IF IsCube(r) THEN <<Append(h, r), Ref(Len(h) + 1)>> ELSE <<h, r>>

InitHeap ==
  /\ start = solved
  /\ cube = start
  /\ hist = <<>>
  /\ phase = "heap"
  /\ pattern = <<>>
  /\ reps = 0
  /\ call = <<"init">>
  /\ result = None
  /\ heap = <<>>
  /\ threads = <<>>
  /\ registry = <<>>
  /\ queue = <<>>
  /\ visited = {}

\* CubeState(stickers)
Construct(stickers) ==
  /\ phase = "heap"
  /\ call' = <<"CubeState", stickers>>
  /\ IF IsCube(CubeState(stickers))
     THEN heap' = Append(heap, CubeState(stickers)) /\ result' = Ref(Len(heap) + 1)
     ELSE heap' = heap /\ result' = CubeState(stickers)
  /\ Len(heap') <= MaxObjects
  /\ UNCHANGED <<threads, registry, queue, visited>>
  /\ UNCHANGED <<start, cube, hist, phase, pattern, reps>>

\* apply_move(heap[self], m)
HeapApplyMove(self, m) ==
  /\ phase = "heap"
  /\ call' = <<"apply_move", self, m>>
  /\ heap' = new_object(heap, self, apply_move(heap[self], m))[1]
  /\ result' = new_object(heap, self, apply_move(heap[self], m))[2]
  /\ Len(heap') <= MaxObjects
  /\ UNCHANGED <<threads, registry, queue, visited>>
  /\ UNCHANGED <<start, cube, hist, phase, pattern, reps>>

\* apply_sequence(heap[self], moves): the loop variable starts as the
\* argument itself, so the empty sequence returns the very object it got;
\* the states between two moves are referenced by nothing once the call ends.
HeapApplySequence(self, moves) ==
  /\ phase = "heap"
  /\ call' = <<"apply_sequence", self, moves>>
  /\ IF moves = <<>>
     THEN heap' = heap /\ result' = Ref(self)
     ELSE /\ heap' = new_object(heap, self, apply_sequence(heap[self], moves))[1]
          /\ result' = new_object(heap, self, apply_sequence(heap[self], moves))[2]
  /\ Len(heap') <= MaxObjects
  /\ UNCHANGED <<threads, registry, queue, visited>>
  /\ UNCHANGED <<start, cube, hist, phase, pattern, reps>>

\* heap[self].with_sticker(face, pos, color)
WithSticker(self, face, pos, color) ==
  /\ phase = "heap"
  /\ call' = <<"with_sticker", self, face, pos, color>>
  /\ heap' = new_object(heap, self, with_sticker(heap[self], face, pos, color))[1]
  /\ result' = new_object(heap, self, with_sticker(heap[self], face, pos, color))[2]
  /\ Len(heap') <= MaxObjects
  /\ UNCHANGED <<threads, registry, queue, visited>>
  /\ UNCHANGED <<start, cube, hist, phase, pattern, reps>>

\* heap[self].get_sticker(face, pos)
GetSticker(self, face, pos) ==
  /\ phase = "heap"
  /\ call' = <<"get_sticker", self, face, pos>>
  /\ result' = IF face \in DOMAIN FACE_OFFSETS /\ 0 <= pos /\ pos <= 8
               THEN Value(get_sticker(heap[self], face, pos))
               ELSE get_sticker(heap[self], face, pos)
  /\ UNCHANGED <<threads, registry, queue, visited>>
  /\ UNCHANGED <<start, cube, hist, phase, pattern, reps, heap>>

\* heap[self].get_face(face)
GetFace(self, face) ==
  /\ phase = "heap"
  /\ call' = <<"get_face", self, face>>
  /\ result' = IF face \in DOMAIN FACE_RANGES
               THEN Value(get_face(heap[self], face))
               ELSE get_face(heap[self], face)
  /\ UNCHANGED <<threads, registry, queue, visited>>
  /\ UNCHANGED <<start, cube, hist, phase, pattern, reps, heap>>

\* heap[self].is_solved()
IsSolved(self) ==
  /\ phase = "heap"
  /\ call' = <<"is_solved", self>>
  /\ result' = Value(is_solved(heap[self]))
  /\ UNCHANGED <<threads, registry, queue, visited>>
  /\ UNCHANGED <<start, cube, hist, phase, pattern, reps, heap>>

\* heap[self].validate()
Validate(self) ==
  /\ phase = "heap"
  /\ call' = <<"validate", self>>
  /\ result' = Value(validate(heap[self]))
  /\ UNCHANGED <<threads, registry, queue, visited>>
  /\ UNCHANGED <<start, cube, hist, phase, pattern, reps, heap>>

NextHeap ==
  \/ \E stickers \in StickerInputs : Construct(stickers)
  \/ \E self \in DOMAIN heap : \E m \in HeapMoveInputs : HeapApplyMove(self, m)
  \/ \E self \in DOMAIN heap : \E moves \in SequenceInputs :
       HeapApplySequence(self, moves)
  \/ \E self \in DOMAIN heap : \E face \in EdgeFaceInputs :
       \E pos \in EditPosInputs : \E color \in ColorInputs :
         WithSticker(self, face, pos, color)
  \/ \E self \in DOMAIN heap : \E face \in EdgeFaceInputs : \E pos \in PosInputs :
       GetSticker(self, face, pos)
  \/ \E self \in DOMAIN heap : \E face \in EdgeFaceInputs : GetFace(self, face)
  \/ \E self \in DOMAIN heap : IsSolved(self)
  \/ \E self \in DOMAIN heap : Validate(self)

SpecHeap == InitHeap /\ [][NextHeap]_vars

HeapTypeOK ==
  /\ phase = "heap"
  /\ Len(heap) <= MaxObjects
  /\ result[1] \in {"None", "ref", "value", "ValueError"}

\* the left fold of apply_move over the first k names of a sequence
RECURSIVE FoldLeft(_, _, _)
FoldLeft(c, names, k) ==
  IF k = 0 THEN c ELSE apply_move(FoldLeft(c, names, k - 1), names[k])

\* the index of the first name outside the vocabulary
FirstInvalid(names) ==
  CHOOSE k \in 1..Len(names) :
    /\ names[k] \notin Vocabulary
    /\ \A j \in 1..(k - 1) : names[j] \in Vocabulary

(***************************************************************************)
(* C15.  apply_sequence(s, names) returns the left fold of apply_move over *)
(* names, and a state equal to s for the empty list.  If some name is      *)
(* invalid the call raises the invalid-move error for the first such name, *)
(* creates no state that anything refers to, and leaves s and every other  *)
(* object as it was.  (SpecHeap)                                           *)
(***************************************************************************)
C15_SequenceIsAtomicFold ==
  [][call'[1] = "apply_sequence" =>
       LET s == heap[call'[2]]
           names == call'[3]
       IN  /\ heap'[call'[2]] = s
           /\ IF \A k \in 1..Len(names) : names[k] \in Vocabulary
              THEN /\ result'[1] = "ref"
                   /\ heap'[result'[2]] = FoldLeft(s, names, Len(names))
                   /\ names = <<>> => heap'[result'[2]] = s
              ELSE /\ result'[1] = "ValueError"
                   /\ result'[2] = "Invalid move"
                   /\ result'[3] = names[FirstInvalid(names)]
                   /\ heap' = heap]_vars

C15_Witness ==
  /\ phase = "heap"
  /\ call = <<"apply_sequence", 2, <<<<"R">>, <<"X">>, <<"U">>>>>>
  /\ result[1] = "ValueError"
  /\ result[3] = <<"X">>
  /\ Len(heap) = 2
  /\ heap[2] # solved

(***************************************************************************)
(* C16.  The constructor given a sticker sequence of a length other than   *)
(* 54 raises the shape error, whatever the length (a longer one is not     *)
(* cut, a shorter one is not filled); given 54 stickers it stores exactly  *)
(* those, whatever they are; and every CubeState that any call produced    *)
(* holds 54 stickers.  (SpecHeap)                                          *)
(***************************************************************************)
C16_ConstructorChecksLength ==
  /\ \A i \in DOMAIN heap : DOMAIN heap[i] = 0..53
  /\ (phase = "heap" /\ call[1] = "CubeState" /\ call[2] # None) =>
       IF Cardinality(DOMAIN call[2]) = 54
       THEN /\ result[1] = "ref"
            /\ result[2] = Len(heap)
            /\ heap[result[2]] = call[2]
       ELSE /\ result[1] = "ValueError"
            /\ result[2] = "Expected 54 stickers"
            /\ result[3] = Cardinality(DOMAIN call[2])

C16_Witness ==
  /\ phase = "heap"
  /\ call = <<"CubeState", white(55)>>
  /\ result = <<"ValueError", "Expected 54 stickers", 55>>
  /\ Len(heap) = 1
  /\ heap[1] = recolored

(***************************************************************************)
(* C17.  No call changes an object that exists: across every call of the   *)
(* constructor, apply_move, apply_sequence, with_sticker, get_sticker,     *)
(* get_face, is_solved and validate each object created before keeps the   *)
(* stickers it had, and the state a move returns is a new object, none of  *)
(* those that existed before the call.  (SpecHeap)                         *)
(***************************************************************************)
C17_StatesAreImmutable ==
  [][/\ \A i \in DOMAIN heap : i \in DOMAIN heap' /\ heap'[i] = heap[i]
     /\ (call'[1] \in {"apply_move", "with_sticker"} /\ result'[1] = "ref") =>
          /\ result'[2] \notin DOMAIN heap
          /\ result'[2] \in DOMAIN heap'
     /\ (call'[1] = "apply_sequence" /\ result'[1] = "ref" /\ call'[3] # <<>>) =>
          /\ result'[2] \notin DOMAIN heap
          /\ result'[2] \in DOMAIN heap']_vars

C17_Witness ==
  /\ phase = "heap"
  /\ call = <<"apply_move", 1, <<"U">>>>
  /\ result = Ref(2)
  /\ heap[1] = solved
  /\ heap[2] # solved

\* the absolute offset of a face: nine stickers per face in the order URFDLB
Offset(face) ==
  9 * ((CHOOSE k \in 1..6 : <<"U", "R", "F", "D", "L", "B">>[k] = face) - 1)

(***************************************************************************)
(* C18.  s.with_sticker(face, pos, color) with face one of U, R, F, D, L,  *)
(* B and pos in 0..8 returns a new object that holds color at position     *)
(* Offset(face) + pos and the stickers of s at the 53 other positions, and *)
(* s is as before; with any other face or pos it raises the range error,   *)
(* and no object is created.  (SpecHeap)                                   *)
(***************************************************************************)
C18_WithStickerReplacesOne ==
  [][call'[1] = "with_sticker" =>
       LET s == heap[call'[2]]
           face == call'[3]
           pos == call'[4]
           color == call'[5]
       IN  IF face \in {"U", "R", "F", "D", "L", "B"} /\ pos \in 0..8
           THEN /\ result'[1] = "ref"
                /\ result'[2] \notin DOMAIN heap
                /\ \A k \in 0..53 :
                     heap'[result'[2]][k] =
                       IF k = Offset(face) + pos THEN color ELSE s[k]
                /\ heap'[call'[2]] = s
           ELSE /\ result'[1] = "ValueError"
                /\ result'[2] \in {"Invalid face", "Invalid position"}
                /\ heap' = heap]_vars

C18_Witness ==
  /\ phase = "heap"
  /\ call = <<"with_sticker", 1, "B", 8, "Z">>
  /\ result = Ref(2)
  /\ heap[2][53] = "Z"
  /\ \A k \in 0..52 : heap[2][k] = heap[1][k]
  /\ heap[1] = solved

(***************************************************************************)
(* C19.  is_solved() returns true exactly when, on each of the six faces,  *)
(* the nine stickers equal the sticker at position 4 of that face;         *)
(* which colour a face has plays no part.  (SpecHeap)                      *)
(***************************************************************************)
C19_SolvedIffFacesUniform ==
  (phase = "heap" /\ call[1] = "is_solved") =>
    result = <<"value",
               \A f \in 0..5 : \A j \in 0..8 :
                 heap[call[2]][9 * f + j] = heap[call[2]][9 * f + 4]>>

C19_Witness ==
  /\ phase = "heap"
  /\ call = <<"is_solved", 1>>
  /\ heap[1] = recolored
  /\ heap[1] # solved
  /\ result = <<"value", TRUE>>

\* every colour that occurs in c occurs 9 times, and the six centers hold
\* W, R, G, Y, O, B
Balanced(c) ==
  /\ \A col \in {c[i] : i \in 0..53} :
       Cardinality({i \in 0..53 : c[i] = col}) = 9
  /\ <<c[4], c[13], c[22], c[31], c[40], c[49]>> = <<"W", "R", "G", "Y", "O", "B">>

(***************************************************************************)
(* C20.  validate() raises nothing; it returns (True, []) exactly when     *)
(* every colour present occurs 9 times and positions 4, 13, 22, 31, 40, 49 *)
(* hold W, R, G, Y, O, B, and (False, msgs) with at least one message      *)
(* otherwise.  A state that is not balanced exists as an object all the    *)
(* same, and apply_move with a valid name returns a state for it.          *)
(* (SpecHeap)                                                              *)
(***************************************************************************)
C20_ValidateReportsBalance ==
  /\ (phase = "heap" /\ call[1] = "validate") =>
       /\ result[1] = "value"
       /\ result[2] = <<TRUE, {}>> <=> Balanced(heap[call[2]])
       /\ ~ Balanced(heap[call[2]]) =>
            (result[2][1] = FALSE /\ result[2][2] # {})
  /\ (phase = "heap" /\ call[1] = "apply_move" /\ call[3] \in Vocabulary
        /\ ~ Balanced(heap[call[2]])) =>
       /\ result[1] = "ref"
       /\ DOMAIN heap[result[2]] = 0..53

C20_Witness ==
  /\ phase = "heap"
  /\ call = <<"validate", 2>>
  /\ heap[1] = solved
  /\ heap[2] = [solved EXCEPT ![4] = "Z"]
  /\ result = <<"value", <<FALSE, {<<"count", "W">>, <<"count", "Z">>,
                                   <<"colors">>, <<"center", 4>>}>>>>

(***************************************************************************)
(* Specification SpecThreads: threads that hold a reference to one shared  *)
(* starting CubeState (heap[1]) each fold apply_move over their own        *)
(* sequence of names, with no lock.  A step of a thread is one of: the     *)
(* look-up of the name in MOVE_FUNCTIONS, the reads of one slice of the    *)
(* list comprehension of _apply_permutation (cube.stickers is read again   *)
(* for every element), or the construction of the new CubeState.  The      *)
(* states a thread creates are referred to by that thread only and are     *)
(* kept in its frame.                                                      *)
(***************************************************************************)
\* threads sharing the starting state
NumThreads == 2

\* elements of the comprehension read in one step: the stickers of one face
Slice == 9

\* MOVE_FUNCTIONS: each of the 18 names is bound to its function
MOVE_REGISTRY == [m \in MOVE_NAMES |-> <<"apply", m>>]

\* The permutation that the base function apply_<face> builds.
perm_of(face) ==
  CASE face = "U" -> perm_U
    [] face = "R" -> perm_R
    [] face = "F" -> perm_F
    [] face = "D" -> perm_D
    [] face = "L" -> perm_L
    [] face = "B" -> perm_B

\* every registered function running its base function once
calls_once(fn) == <<fn[2][1]>>

\* The base functions a registered function runs, in order: apply_X calls
\* _apply_permutation once, apply_X_prime is apply_X(apply_X(apply_X(cube)))
\* and apply_X2 is apply_X(apply_X(cube)).
calls(fn) ==
  IF Len(fn[2]) = 1 THEN <<fn[2][1]>>
  ELSE IF fn[2][2] = "'" THEN <<fn[2][1], fn[2][1], fn[2][1]>>
  ELSE <<fn[2][1], fn[2][1]>>

\* the sequences of names the threads apply
ThreadInputs ==
  { <<<<"U">>>>,
    <<<<"L", "'">>>>,
    <<<<"R">>, <<"F", "2">>>>,
    <<<<"X">>>> }

\* the frame of a thread that is about to start
frame(moves) ==
  [moves |-> moves, k |-> 1, pc |-> "lookup", todo |-> <<>>,
   cur |-> Ref(1), new_stickers |-> <<>>, gathers |-> 0, error |-> None]

\* cube.stickers as a thread reads it now: the shared object is read from
\* the heap, a state of the thread's own from its frame
stickers_of(h, th) == IF th.cur[1] = "ref" THEN h[th.cur[2]] ELSE th.cur[2]

\* a comprehension that stores each element it reads back into the old state
gather_slice_in_place(h, th) ==
  LET n == Len(th.new_stickers)
      perm == perm_of(th.todo[1])
      read == [j \in 1..Slice |-> stickers_of(h, th)[perm[n + j - 1]]]
  IN  << IF th.cur[1] = "ref"
         THEN [h EXCEPT ![th.cur[2]] =
                 [i \in Positions |->
                    IF i \in n..(n + Slice - 1) THEN read[i - n + 1] ELSE @[i]]]
         ELSE h,
         [th EXCEPT !.new_stickers = @ \o read,
                    !.pc = IF n + Slice >= 54 THEN "construct" ELSE "gather"] >>

\* _apply_permutation, the comprehension: the next Slice elements
\* cube.stickers[perm[i]] are read and appended to the new list; nothing
\* else is touched.
gather_slice(h, th) ==
  LET n == Len(th.new_stickers)
      perm == perm_of(th.todo[1])
      read == [j \in 1..Slice |-> stickers_of(h, th)[perm[n + j - 1]]]
  IN  << h,
         [th EXCEPT !.new_stickers = @ \o read,
                    !.pc = IF n + Slice >= 54 THEN "construct" ELSE "gather"] >>

InitThreads ==
  /\ start \in StartStates
  /\ cube = start
  /\ hist = <<>>
  /\ phase = "threads"
  /\ pattern = <<>>
  /\ reps = 0
  /\ call = <<"init">>
  /\ result = None
  /\ heap = <<start>>
  /\ threads \in [1..NumThreads -> {frame(moves) : moves \in ThreadInputs}]
  /\ registry = MOVE_REGISTRY
  /\ queue = <<>>
  /\ visited = {}

\* apply_move: "if move not in MOVE_FUNCTIONS: raise ValueError", else
\* MOVE_FUNCTIONS[move] is called
ThreadLookup(t) ==
  /\ phase = "threads"
  /\ threads[t].pc = "lookup"
  /\ LET move == threads[t].moves[threads[t].k]
     IN  threads' =
           [threads EXCEPT ![t] =
              IF move \notin DOMAIN registry
              THEN [@ EXCEPT !.pc = "raised", !.error = InvalidMove(move)]
              ELSE [@ EXCEPT !.pc = "gather", !.todo = calls(registry[move]),
                             !.new_stickers = <<>>]]
  /\ UNCHANGED <<start, cube, hist, phase, pattern, reps, call, result, heap>>
  /\ UNCHANGED <<registry, queue, visited>>

\* one slice of the comprehension of _apply_permutation
ThreadGather(t) ==
  /\ phase = "threads"
  /\ threads[t].pc = "gather"
  /\ heap' = gather_slice(heap, threads[t])[1]
  /\ threads' = [threads EXCEPT ![t] = gather_slice(heap, threads[t])[2]]
  /\ UNCHANGED <<start, cube, hist, phase, pattern, reps, call, result>>
  /\ UNCHANGED <<registry, queue, visited>>

\* "return CubeState(new_stickers)": the new state becomes the thread's
\* current one; the next base function of the move, the next name of the
\* sequence, or the end.
ThreadConstruct(t) ==
  /\ phase = "threads"
  /\ threads[t].pc = "construct"
  /\ LET th == threads[t]
         made == CubeState([i \in 0..(Len(th.new_stickers) - 1) |->
                              th.new_stickers[i + 1]])
         last == Len(th.todo) = 1
     IN  threads' =
           [threads EXCEPT ![t] =
              [@ EXCEPT !.cur = <<"local", made>>,
                        !.gathers = @ + 1,
                        !.new_stickers = <<>>,
                        !.todo = Tail(@),
                        !.k = IF last THEN @ + 1 ELSE @,
                        !.pc = IF ~ last THEN "gather"
                               ELSE IF th.k = Len(th.moves) THEN "done"
                               ELSE "lookup"]]
  /\ UNCHANGED <<start, cube, hist, phase, pattern, reps, call, result, heap>>
  /\ UNCHANGED <<registry, queue, visited>>

NextThreads ==
  \/ \E t \in DOMAIN threads : ThreadLookup(t)
  \/ \E t \in DOMAIN threads : ThreadGather(t)
  \/ \E t \in DOMAIN threads : ThreadConstruct(t)

SpecThreads == InitThreads /\ [][NextThreads]_vars

(***************************************************************************)
(* C21.  Whatever the interleaving of the threads' steps, a thread that    *)
(* has finished holds the state that its names applied one after the       *)
(* other to the starting state give (or has raised the error they raise),  *)
(* and the shared starting state and MOVE_FUNCTIONS are what they were at  *)
(* the start.  (SpecThreads)                                               *)
(***************************************************************************)
C21_ThreadsGetSequentialResult ==
  phase = "threads" =>
    /\ heap = <<start>>
    /\ registry = [m \in Vocabulary |-> <<"apply", m>>]
    /\ \A t \in DOMAIN threads :
         /\ threads[t].pc = "done" =>
              threads[t].cur = <<"local", apply_sequence(start, threads[t].moves)>>
         /\ threads[t].pc = "raised" =>
              threads[t].error = apply_sequence(start, threads[t].moves)

C21_Witness ==
  /\ phase = "threads"
  /\ start = unique_labels
  /\ threads[1].moves = <<<<"R">>, <<"F", "2">>>>
  /\ threads[1].pc = "done"
  /\ threads[1].gathers = 3
  /\ threads[2].moves = <<<<"L", "'">>>>
  /\ threads[2].pc = "gather"
  /\ Len(threads[2].new_stickers) = 27
  /\ threads[2].cur = Ref(1)

rcs_FACES == [f \in {"U", "R", "F", "D", "L", "B"} |->
                CASE f = "U" -> 0 [] f = "R" -> 1 [] f = "F" -> 2
                  [] f = "D" -> 3 [] f = "L" -> 4 [] f = "B" -> 5]

\* CubeState.FACE_NAMES
rcs_FACE_NAMES == <<"U", "R", "F", "D", "L", "B">>

\* CubeState.COLORS
rcs_COLORS == [f \in {"U", "R", "F", "D", "L", "B"} |->
                 CASE f = "U" -> "W" [] f = "R" -> "R" [] f = "F" -> "B"
                   [] f = "D" -> "Y" [] f = "L" -> "O" [] f = "B" -> "G"]

\* CubeState(): nine stickers of the colour of each face, in FACE_NAMES order
rcs_solved == [i \in Positions |-> rcs_COLORS[rcs_FACE_NAMES[(i \div 9) + 1]]]

\* CubeState.get_face: self.stickers[start:start + 9]
rcs_get_face(c, face) == [k \in 0..8 |-> c[rcs_FACES[face] * 9 + k]]

\* CubeState.get_sticker
rcs_get_sticker(c, face, position) == c[rcs_FACES[face] * 9 + position]

\* CubeState.set_sticker
rcs_set_sticker(c, face, position, color) ==
  [c EXCEPT ![rcs_FACES[face] * 9 + position] = color]

\* CubeState.is_solved: each face holds one colour
rcs_is_solved(c) ==
  \A n \in 1..Len(rcs_FACE_NAMES) :
    Cardinality({rcs_get_face(c, rcs_FACE_NAMES[n])[k] : k \in 0..8}) = 1

\* rotate_face_cw
rcs_rotate_face_cw(face) ==
  <<face[6], face[3], face[0], face[7], face[4], face[1], face[8], face[5], face[2]>>

\* rotate_face_ccw
rcs_rotate_face_ccw(face) ==
  <<face[2], face[5], face[8], face[1], face[4], face[7], face[0], face[3], face[6]>>

\* [cube.get_sticker(face, i) for i in positions]
rcs_saved(c, face, positions) ==
  [i \in 1..Len(positions) |-> rcs_get_sticker(c, face, positions[i])]

\* for i, pos in enumerate(positions): new_cube.set_sticker(face, pos, colors[i])
RECURSIVE rcs_put(_, _, _, _)
rcs_put(new_cube, face, positions, colors) ==
  IF positions = <<>> THEN new_cube
  ELSE rcs_put(rcs_set_sticker(new_cube, face, Head(positions), Head(colors)),
               face, Tail(positions), Tail(colors))

\* col[2 - i] for i = 0, 1, 2
reversed(col) == [i \in 1..Len(col) |-> col[Len(col) + 1 - i]]

\* apply_U: the U face turns clockwise; the top rows go F -> R -> B -> L -> F
rcs_apply_U(c) ==
  LET turned == rcs_put(c, "U", <<0, 1, 2, 3, 4, 5, 6, 7, 8>>,
                        rcs_rotate_face_cw(rcs_get_face(c, "U")))
      f_top == rcs_saved(c, "F", <<0, 1, 2>>)
      r_top == rcs_saved(c, "R", <<0, 1, 2>>)
      b_top == rcs_saved(c, "B", <<0, 1, 2>>)
      l_top == rcs_saved(c, "L", <<0, 1, 2>>)
  IN  rcs_put(rcs_put(rcs_put(rcs_put(turned,
              "R", <<0, 1, 2>>, f_top),
              "B", <<0, 1, 2>>, r_top),
              "L", <<0, 1, 2>>, b_top),
              "F", <<0, 1, 2>>, l_top)

\* apply_U_prime: the U face turns counter-clockwise; the top rows go F -> L -> B -> R -> F
rcs_apply_U_prime(c) ==
  LET turned == rcs_put(c, "U", <<0, 1, 2, 3, 4, 5, 6, 7, 8>>,
                        rcs_rotate_face_ccw(rcs_get_face(c, "U")))
      f_top == rcs_saved(c, "F", <<0, 1, 2>>)
      r_top == rcs_saved(c, "R", <<0, 1, 2>>)
      b_top == rcs_saved(c, "B", <<0, 1, 2>>)
      l_top == rcs_saved(c, "L", <<0, 1, 2>>)
  IN  rcs_put(rcs_put(rcs_put(rcs_put(turned,
              "L", <<0, 1, 2>>, f_top),
              "B", <<0, 1, 2>>, l_top),
              "R", <<0, 1, 2>>, b_top),
              "F", <<0, 1, 2>>, r_top)

\* apply_R: the R face turns clockwise; U -> F -> D -> B -> U, the column of B read as 6, 3, 0
\* and written to U through b_col[2 - i]
rcs_apply_R(c) ==
  LET turned == rcs_put(c, "R", <<0, 1, 2, 3, 4, 5, 6, 7, 8>>,
                        rcs_rotate_face_cw(rcs_get_face(c, "R")))
      u_col == rcs_saved(c, "U", <<2, 5, 8>>)
      f_col == rcs_saved(c, "F", <<2, 5, 8>>)
      d_col == rcs_saved(c, "D", <<2, 5, 8>>)
      b_col == rcs_saved(c, "B", <<6, 3, 0>>)
  IN  rcs_put(rcs_put(rcs_put(rcs_put(turned,
              "F", <<2, 5, 8>>, u_col),
              "D", <<2, 5, 8>>, f_col),
              "B", <<6, 3, 0>>, d_col),
              "U", <<2, 5, 8>>, reversed(b_col))

\* apply_R_prime: the R face turns counter-clockwise; U -> B (through u_col[2 - i]),
\* F -> U, D -> F, B -> D (b_col[i])
rcs_apply_R_prime(c) ==
  LET turned == rcs_put(c, "R", <<0, 1, 2, 3, 4, 5, 6, 7, 8>>,
                        rcs_rotate_face_ccw(rcs_get_face(c, "R")))
      u_col == rcs_saved(c, "U", <<2, 5, 8>>)
      f_col == rcs_saved(c, "F", <<2, 5, 8>>)
      d_col == rcs_saved(c, "D", <<2, 5, 8>>)
      b_col == rcs_saved(c, "B", <<6, 3, 0>>)
  IN  rcs_put(rcs_put(rcs_put(rcs_put(turned,
              "B", <<6, 3, 0>>, reversed(u_col)),
              "U", <<2, 5, 8>>, f_col),
              "F", <<2, 5, 8>>, d_col),
              "D", <<2, 5, 8>>, b_col)

\* apply_F: the F face turns clockwise; U -> R -> D -> L -> U
rcs_apply_F(c) ==
  LET turned == rcs_put(c, "F", <<0, 1, 2, 3, 4, 5, 6, 7, 8>>,
                        rcs_rotate_face_cw(rcs_get_face(c, "F")))
      u_bottom == rcs_saved(c, "U", <<6, 7, 8>>)
      r_left == rcs_saved(c, "R", <<0, 3, 6>>)
      d_top == rcs_saved(c, "D", <<2, 1, 0>>)
      l_right == rcs_saved(c, "L", <<8, 5, 2>>)
  IN  rcs_put(rcs_put(rcs_put(rcs_put(turned,
              "R", <<0, 3, 6>>, u_bottom),
              "D", <<2, 1, 0>>, r_left),
              "L", <<8, 5, 2>>, d_top),
              "U", <<6, 7, 8>>, l_right)

\* apply_F_prime: the F face turns counter-clockwise; U -> L -> D -> R -> U
rcs_apply_F_prime(c) ==
  LET turned == rcs_put(c, "F", <<0, 1, 2, 3, 4, 5, 6, 7, 8>>,
                        rcs_rotate_face_ccw(rcs_get_face(c, "F")))
      u_bottom == rcs_saved(c, "U", <<6, 7, 8>>)
      r_left == rcs_saved(c, "R", <<0, 3, 6>>)
      d_top == rcs_saved(c, "D", <<2, 1, 0>>)
      l_right == rcs_saved(c, "L", <<8, 5, 2>>)
  IN  rcs_put(rcs_put(rcs_put(rcs_put(turned,
              "L", <<8, 5, 2>>, u_bottom),
              "U", <<6, 7, 8>>, r_left),
              "R", <<0, 3, 6>>, d_top),
              "D", <<2, 1, 0>>, l_right)

\* apply_D: the D face turns clockwise; the bottom rows go F -> L -> B -> R -> F
rcs_apply_D(c) ==
  LET turned == rcs_put(c, "D", <<0, 1, 2, 3, 4, 5, 6, 7, 8>>,
                        rcs_rotate_face_cw(rcs_get_face(c, "D")))
      f_bottom == rcs_saved(c, "F", <<6, 7, 8>>)
      l_bottom == rcs_saved(c, "L", <<6, 7, 8>>)
      b_bottom == rcs_saved(c, "B", <<6, 7, 8>>)
      r_bottom == rcs_saved(c, "R", <<6, 7, 8>>)
  IN  rcs_put(rcs_put(rcs_put(rcs_put(turned,
              "L", <<6, 7, 8>>, f_bottom),
              "B", <<6, 7, 8>>, l_bottom),
              "R", <<6, 7, 8>>, b_bottom),
              "F", <<6, 7, 8>>, r_bottom)

\* apply_D_prime: the D face turns counter-clockwise; the bottom rows go F -> R -> B -> L -> F
rcs_apply_D_prime(c) ==
  LET turned == rcs_put(c, "D", <<0, 1, 2, 3, 4, 5, 6, 7, 8>>,
                        rcs_rotate_face_ccw(rcs_get_face(c, "D")))
      f_bottom == rcs_saved(c, "F", <<6, 7, 8>>)
      l_bottom == rcs_saved(c, "L", <<6, 7, 8>>)
      b_bottom == rcs_saved(c, "B", <<6, 7, 8>>)
      r_bottom == rcs_saved(c, "R", <<6, 7, 8>>)
  IN  rcs_put(rcs_put(rcs_put(rcs_put(turned,
              "R", <<6, 7, 8>>, f_bottom),
              "B", <<6, 7, 8>>, r_bottom),
              "L", <<6, 7, 8>>, b_bottom),
              "F", <<6, 7, 8>>, l_bottom)

\* apply_L: the L face turns clockwise; U -> B and B -> D through [2 - i], F -> U, D -> F
rcs_apply_L(c) ==
  LET turned == rcs_put(c, "L", <<0, 1, 2, 3, 4, 5, 6, 7, 8>>,
                        rcs_rotate_face_cw(rcs_get_face(c, "L")))
      u_col == rcs_saved(c, "U", <<0, 3, 6>>)
      f_col == rcs_saved(c, "F", <<0, 3, 6>>)
      d_col == rcs_saved(c, "D", <<0, 3, 6>>)
      b_col == rcs_saved(c, "B", <<8, 5, 2>>)
  IN  rcs_put(rcs_put(rcs_put(rcs_put(turned,
              "B", <<8, 5, 2>>, reversed(u_col)),
              "U", <<0, 3, 6>>, f_col),
              "F", <<0, 3, 6>>, d_col),
              "D", <<0, 3, 6>>, reversed(b_col))

\* apply_L_prime: the L face turns counter-clockwise; U -> F, F -> D, D -> B and
\* B -> U through [2 - i]
rcs_apply_L_prime(c) ==
  LET turned == rcs_put(c, "L", <<0, 1, 2, 3, 4, 5, 6, 7, 8>>,
                        rcs_rotate_face_ccw(rcs_get_face(c, "L")))
      u_col == rcs_saved(c, "U", <<0, 3, 6>>)
      f_col == rcs_saved(c, "F", <<0, 3, 6>>)
      d_col == rcs_saved(c, "D", <<0, 3, 6>>)
      b_col == rcs_saved(c, "B", <<8, 5, 2>>)
  IN  rcs_put(rcs_put(rcs_put(rcs_put(turned,
              "F", <<0, 3, 6>>, u_col),
              "D", <<0, 3, 6>>, f_col),
              "B", <<8, 5, 2>>, reversed(d_col)),
              "U", <<0, 3, 6>>, reversed(b_col))

\* apply_B: the B face turns clockwise; U -> L -> D -> R -> U
rcs_apply_B(c) ==
  LET turned == rcs_put(c, "B", <<0, 1, 2, 3, 4, 5, 6, 7, 8>>,
                        rcs_rotate_face_cw(rcs_get_face(c, "B")))
      u_top == rcs_saved(c, "U", <<2, 1, 0>>)
      l_left == rcs_saved(c, "L", <<0, 3, 6>>)
      d_bottom == rcs_saved(c, "D", <<6, 7, 8>>)
      r_right == rcs_saved(c, "R", <<8, 5, 2>>)
  IN  rcs_put(rcs_put(rcs_put(rcs_put(turned,
              "L", <<0, 3, 6>>, u_top),
              "D", <<6, 7, 8>>, l_left),
              "R", <<8, 5, 2>>, d_bottom),
              "U", <<2, 1, 0>>, r_right)

\* apply_B_prime: the B face turns counter-clockwise; U -> R -> D -> L -> U
rcs_apply_B_prime(c) ==
  LET turned == rcs_put(c, "B", <<0, 1, 2, 3, 4, 5, 6, 7, 8>>,
                        rcs_rotate_face_ccw(rcs_get_face(c, "B")))
      u_top == rcs_saved(c, "U", <<2, 1, 0>>)
      l_left == rcs_saved(c, "L", <<0, 3, 6>>)
      d_bottom == rcs_saved(c, "D", <<6, 7, 8>>)
      r_right == rcs_saved(c, "R", <<8, 5, 2>>)
  IN  rcs_put(rcs_put(rcs_put(rcs_put(turned,
              "R", <<8, 5, 2>>, u_top),
              "U", <<2, 1, 0>>, l_left),
              "L", <<0, 3, 6>>, d_bottom),
              "D", <<6, 7, 8>>, r_right)

\* the keys of MOVE_FUNCTIONS: the six faces, plain and primed
rcs_MOVE_NAMES ==
  {<<f>> : f \in {"U", "R", "F", "D", "L", "B"}}
    \cup {<<f, "'">> : f \in {"U", "R", "F", "D", "L", "B"}}

\* MOVE_FUNCTIONS[move](cube)
rcs_MOVE_FUNCTIONS(move, c) ==
  CASE move = <<"U">> -> rcs_apply_U(c)
    [] move = <<"U", "'">> -> rcs_apply_U_prime(c)
    [] move = <<"R">> -> rcs_apply_R(c)
    [] move = <<"R", "'">> -> rcs_apply_R_prime(c)
    [] move = <<"F">> -> rcs_apply_F(c)
    [] move = <<"F", "'">> -> rcs_apply_F_prime(c)
    [] move = <<"D">> -> rcs_apply_D(c)
    [] move = <<"D", "'">> -> rcs_apply_D_prime(c)
    [] move = <<"L">> -> rcs_apply_L(c)
    [] move = <<"L", "'">> -> rcs_apply_L_prime(c)
    [] move = <<"B">> -> rcs_apply_B(c)
    [] move = <<"B", "'">> -> rcs_apply_B_prime(c)

\* ValueError(f"Invalid move: {move}")
rcs_InvalidMove(move) == <<"ValueError", "Invalid move", move>>

\* what Python raises when the calls nest deeper than the recursion limit
RecursionError == <<"RecursionError", "maximum recursion depth exceeded">>

\* apply_move: a name that ends in '2' is replaced by its first character,
\* applied twice, whatever stands between; any other name is looked up in
\* MOVE_FUNCTIONS.  If the first character is itself '2' the call repeats
\* with the same argument until the interpreter stops it.
RECURSIVE rcs_apply_move(_, _)
rcs_apply_move(c, move) ==
  IF endswith(move, "2")
  THEN LET base_move == <<move[1]>>
       IN  IF endswith(base_move, "2") THEN RecursionError
           ELSE IF ~ IsCube(rcs_apply_move(c, base_move))
                THEN rcs_apply_move(c, base_move)
                ELSE rcs_apply_move(rcs_apply_move(c, base_move), base_move)
  ELSE IF move \notin rcs_MOVE_NAMES THEN rcs_InvalidMove(move)
  ELSE rcs_MOVE_FUNCTIONS(move, c)

(***************************************************************************)
(* Specification SpecRcs: the loops of rubiks_cube_solver/tests: one name  *)
(* is passed to the second engine's apply_move again and again, from the   *)
(* solved cube or from the cube of 54 distinct labels.                     *)
(***************************************************************************)
\* names outside the vocabulary: 'X', 'u', "U'2", 'R22', '2', ''
RcsInvalidNames ==
  {<<"X">>, <<"u">>, <<"U", "'", "2">>, <<"R", "2", "2">>, <<"2">>, <<>>}

RcsMoveInputs == MOVE_NAMES \cup RcsInvalidNames

RcsStartStates == {rcs_solved, unique_labels}

InitRcs ==
  /\ start \in RcsStartStates
  /\ cube = start
  /\ hist = <<>>
  /\ phase = "rcs"
  /\ pattern \in {<<m>> : m \in RcsMoveInputs}
  /\ reps = 0
  /\ call = <<"init">>
  /\ result = None
  /\ heap = <<>>
  /\ threads = <<>>
  /\ registry = <<>>
  /\ queue = <<>>
  /\ visited = {}

\* cube = apply_move(cube, move) in a loop; an exception ends the loop
RcsRepeatMove ==
  /\ phase = "rcs"
  /\ reps < MaxReps
  /\ call' = <<"apply_move", pattern[1]>>
  /\ IF IsCube(rcs_apply_move(cube, pattern[1]))
     THEN /\ cube' = rcs_apply_move(cube, pattern[1])
          /\ reps' = reps + 1
          /\ UNCHANGED <<phase, result>>
     ELSE /\ result' = rcs_apply_move(cube, pattern[1])
          /\ phase' = "rcs raised"
          /\ UNCHANGED <<cube, reps>>
  /\ UNCHANGED <<start, hist, pattern, heap, threads, registry, queue, visited>>

NextRcs == RcsRepeatMove

SpecRcs == InitRcs /\ [][NextRcs]_vars

(***************************************************************************)
(* C24.  In the second engine, each base move U, R, F, D, L, B applied     *)
(* four times gives back the state it started from, and each double move   *)
(* applied twice does, from the solved cube and from the cube of 54        *)
(* distinct labels.  (SpecRcs)                                             *)
(***************************************************************************)
C24_RcsFourthPowerIsIdentity ==
  (phase = "rcs" /\ pattern[1] \in Vocabulary) =>
    /\ (Len(pattern[1]) = 1 /\ reps = 4) => cube = start
    /\ (Len(pattern[1]) = 2 /\ pattern[1][2] = "2" /\ reps = 2) => cube = start

(***************************************************************************)
(* C25.  In the second engine, apply_move returns or raises for every      *)
(* name, and for a name that is not one of the 18 symbols it raises        *)
(* ValueError: it returns a state only for the 18 symbols.  (SpecRcs)      *)
(***************************************************************************)
C25_RcsInvalidMoveRaises ==
  (phase \in {"rcs", "rcs raised"} /\ call[1] = "apply_move"
     /\ call[2] \notin Vocabulary) =>
    (phase = "rcs raised" /\ result[1] = "ValueError")

(***************************************************************************)
(* C28.  For each of the 18 names the two engines return the same state:   *)
(* on the cube of 54 distinct labels (and so on every cube) every sticker  *)
(* ends at the same position.  (SpecRcs)                                   *)
(***************************************************************************)
C28_EnginesAgree ==
  (phase = "rcs" /\ reps = 1 /\ pattern[1] \in Vocabulary) =>
    cube = apply_move(start, pattern[1])

\* where the sticker at position i of the 54 distinct labels is in cube c
Destination(c, i) == CHOOSE j \in Positions : c[j] = unique_labels[i]

\* the face (0..5 in the order U, R, F, D, L, B) a position lies on
FaceIndex(i) == i \div 9

\* the face opposite to face index g: U-D, R-L, F-B
OppositeIndex(g) == (g + 3) % 6

(***************************************************************************)
(* C26.  One base move on the cube of 54 distinct labels: on the turned    *)
(* face the stickers go 0 -> 2 -> 8 -> 6 -> 0 and 1 -> 5 -> 7 -> 3 -> 1    *)
(* and 4 stays; exactly 12 other stickers move, 3 from each of the four    *)
(* adjacent faces, each to another adjacent face; the other 34 stickers,   *)
(* among them the opposite face and all six centers, stay.  (SpecRepeat)   *)
(***************************************************************************)
C26_BaseMoveShape ==
  (phase = "repeating" /\ start = unique_labels /\ reps = 1
     /\ Len(pattern) = 1 /\ Len(pattern[1]) = 1) =>
    LET f == FaceIndex(Offset(pattern[1][1]))
        o == 9 * f
        adjacent == (0..5) \ {f, OppositeIndex(f)}
        others == {i \in Positions : FaceIndex(i) # f}
        moved == {i \in others : Destination(cube, i) # i}
    IN  /\ Destination(cube, o + 0) = o + 2
        /\ Destination(cube, o + 2) = o + 8
        /\ Destination(cube, o + 8) = o + 6
        /\ Destination(cube, o + 6) = o + 0
        /\ Destination(cube, o + 1) = o + 5
        /\ Destination(cube, o + 5) = o + 7
        /\ Destination(cube, o + 7) = o + 3
        /\ Destination(cube, o + 3) = o + 1
        /\ Destination(cube, o + 4) = o + 4
        /\ Cardinality(moved) = 12
        /\ \A g \in adjacent : Cardinality({i \in moved : FaceIndex(i) = g}) = 3
        /\ \A i \in moved :
             /\ FaceIndex(Destination(cube, i)) \in adjacent
             /\ FaceIndex(Destination(cube, i)) # FaceIndex(i)
        /\ Cardinality({i \in Positions : Destination(cube, i) = i}) = 34
        /\ \A i \in others : FaceIndex(i) = OppositeIndex(f) => i \notin moved
        /\ \A k \in 1..6 :
             Destination(cube, CENTER_POSITIONS[k]) = CENTER_POSITIONS[k]

C26_Witness ==
  /\ phase = "repeating"
  /\ start = unique_labels
  /\ reps = 1
  /\ pattern = << <<"F">> >>
  /\ Destination(cube, 18) = 20
  /\ Destination(cube, 6) = 9

\* the number of base quarter turns a name stands for
Turns(m) == IF Len(m) = 1 THEN 1 ELSE IF m[2] = "'" THEN 3 ELSE 2

RECURSIVE TurnsOf(_)
TurnsOf(moves) == IF moves = <<>> THEN 0 ELSE Turns(Head(moves)) + TurnsOf(Tail(moves))

C29_SolvedIffEqualsSolved ==
  (start = solved /\ IsCube(cube)) => (is_solved(cube) <=> cube = solved)

C29_Witness ==
  /\ start = solved
  /\ phase = "applying"
  /\ Len(hist) = 2
  /\ hist[1] # hist[2]
  /\ apply_move(solved, hist[1]) # solved
  /\ ~ is_solved(apply_move(solved, hist[1]))
  /\ is_solved(cube)
  /\ cube = solved

(***************************************************************************)
(* rubiks_cube_solver/src/simple_solver.py: SimpleSolver, a breadth-first  *)
(* search over the 18 moves of the second engine.                          *)
(***************************************************************************)
\* apply_move_sequence: the fold of apply_move over a list of names; an
\* exception of apply_move ends the loop
RECURSIVE rcs_apply_move_sequence(_, _)
rcs_apply_move_sequence(c, moves) ==
  IF moves = <<>> THEN c
  ELSE LET next_cube == rcs_apply_move(c, Head(moves))
       IN  IF ~ IsCube(next_cube) THEN next_cube
           ELSE rcs_apply_move_sequence(next_cube, Tail(moves))

\* self.moves, in the order the search tries them
solver_moves ==
  << <<"U">>, <<"U", "'">>, <<"U", "2">>, <<"R">>, <<"R", "'">>, <<"R", "2">>,
     <<"F">>, <<"F", "'">>, <<"F", "2">>, <<"D">>, <<"D", "'">>, <<"D", "2">>,
     <<"L">>, <<"L", "'">>, <<"L", "2">>, <<"B">>, <<"B", "'">>, <<"B", "2">> >>

\* SimpleSolver._is_redundant
is_redundant(last_move, next_move) ==
  LET last_face == last_move[1]
      next_face == next_move[1]
      opposite_pairs == << <<"U", "D">>, <<"R", "L">>, <<"F", "B">> >>
  IN  IF last_face = next_face THEN TRUE
      ELSE \E k \in 1..Len(opposite_pairs) :
             last_face = opposite_pairs[k][2] /\ next_face = opposite_pairs[k][1]

\* The iterations of "while queue" for a queue q whose pairs all have move
\* sequences of one length below max_depth: the pairs are popped in order
\* and for each the moves of self.moves are tried in order.  Try number r is
\* the move try_move(r) on the pair try_pair(q, r).
try_pair(q, r) == q[((r - 1) \div Len(solver_moves)) + 1]

try_move(r) == solver_moves[((r - 1) % Len(solver_moves)) + 1]

\* "if move_seq and self._is_redundant(move_seq[-1], move): continue"
try_skipped(q, r) ==
  /\ try_pair(q, r)[2] # <<>>
  /\ is_redundant(try_pair(q, r)[2][Len(try_pair(q, r)[2])], try_move(r))

\* "new_cube = apply_move(current_cube, move)", for every try not skipped
tries(q) ==
  {<<r, rcs_apply_move(try_pair(q, r)[1], try_move(r))>> :
     r \in {x \in 1..(Len(q) * Len(solver_moves)) : ~ try_skipped(q, x)}}

\* "if new_cube.is_solved(): return": the first try with a solved new_cube,
\* or none when no try has one
first_solved(tried, none) ==
  IF \A t \in tried : ~ rcs_is_solved(t[2]) THEN none
  ELSE CHOOSE r \in {t[1] : t \in tried} :
         \E hit \in {t \in tried : rcs_is_solved(t[2])} :
           /\ hit[1] = r
           /\ \A t \in tried : rcs_is_solved(t[2]) => r <= t[1]

\* the tries before the return whose new_cube is not in visited as it was
\* when the first pair was popped
fresh(tried, stop, vis) == {t \in tried : t[1] < stop /\ t[2] \notin vis}

\* the new cubes that two of these tries give (two try numbers differ in
\* some binary digit)
repeated(new) ==
  UNION {{t[2] : t \in {x \in new : (x[1] \div 2^b) % 2 = 0}}
           \cap {t[2] : t \in {x \in new : (x[1] \div 2^b) % 2 = 1}} :
         b \in {d \in 0..30 : \E t \in new : 2^d <= t[1]}}

\* "if new_cube not in visited": the tries that add their new_cube to
\* visited and a pair to the queue: of the tries in new that give one
\* new_cube, the first, since it puts new_cube in visited
first_of(new) ==
  UNION {{t \in new : t \in again => \A u \in again : u[2] = t[2] => u[1] >= t[1]} :
         again \in {{t \in new : t[2] \in rep} : rep \in {repeated(new)}}}

\* the try numbers of a set of tries, in increasing order
in_order(some, last) ==
  UNION {{SelectSeq([r \in 1..last |-> r], LAMBDA r : r \in ranks)} :
         ranks \in {{t[1] : t \in some}}}

\* the scrambles handed to solve: no move, every single move, two moves,
\* and U' R2 R2
ScrambleInputs ==
  {<<>>}
  \cup {<<m>> : m \in rcs_MOVE_NAMES}
  \cup { << <<"R">>, <<"U">> >>,
         << <<"F", "'">>, <<"D", "2">> >>,
         << <<"L">>, <<"B", "'">> >>,
         << <<"D">>, <<"U">> >>,
         << <<"U", "'">>, <<"R", "2">>, <<"R", "2">> >> }

\* the values of max_depth the solver is constructed with
max_depth_inputs == {1, 3}

InitSolve ==
  /\ start = rcs_solved
  /\ pattern \in ScrambleInputs
  /\ cube = rcs_apply_move_sequence(start, pattern)
  /\ call \in {<<"SimpleSolver", max_depth>> : max_depth \in max_depth_inputs}
  /\ hist = <<>>
  /\ phase = "solve called"
  /\ reps = 0
  /\ result = None
  /\ heap = <<>>
  /\ threads = <<>>
  /\ registry = <<>>
  /\ queue = <<>>
  /\ visited = {}

\* solve, up to the while loop
SolveEnter ==
  /\ phase = "solve called"
  /\ IF rcs_is_solved(cube)
     THEN /\ result' = <<>>
          /\ phase' = "returned"
          /\ UNCHANGED <<queue, visited>>
     ELSE /\ queue' = << <<cube, <<>>>> >>
          /\ visited' = {cube}
          /\ phase' = "searching"
          /\ UNCHANGED result
  /\ UNCHANGED <<start, cube, hist, pattern, reps, call, heap, threads, registry>>

\* The iterations of "while queue" for the pairs now in the queue, which
\* have move sequences of one length: at max_depth each is popped and
\* dropped ("continue"); below it each is popped and its moves are tried,
\* up to the first try that finds a solved cube, which returns
\* move_seq + [move] and leaves the later pairs in the queue.
SolveLevel ==
  /\ phase = "searching"
  /\ queue # <<>>
  /\ IF Len(Head(queue)[2]) >= call[2]
     THEN /\ queue' = <<>>
          /\ UNCHANGED <<visited, result, phase>>
     ELSE \E last \in {Len(queue) * Len(solver_moves)} :
          \E tried \in {tries(queue)} :
          \E stop \in {first_solved(tried, last + 1)} :
          \E new \in {fresh(tried, stop, visited)} :
          \E added \in {first_of(new)} :
          \E order \in in_order(added, last) :
            /\ visited' = visited \cup {t[2] : t \in added}
            /\ queue' =
                 SubSeq(queue,
                        IF stop > last THEN Len(queue) + 1
                        ELSE ((stop - 1) \div Len(solver_moves)) + 2,
                        Len(queue))
                 \o [i \in 1..Len(order) |->
                       <<rcs_apply_move(try_pair(queue, order[i])[1], try_move(order[i])),
                         Append(try_pair(queue, order[i])[2], try_move(order[i]))>>]
            /\ IF stop > last
               THEN UNCHANGED <<result, phase>>
               ELSE /\ result' = Append(try_pair(queue, stop)[2], try_move(stop))
                    /\ phase' = "returned"
  /\ UNCHANGED <<start, cube, hist, pattern, reps, call, heap, threads, registry>>

\* the queue is empty: "return []"
SolveExhausted ==
  /\ phase = "searching"
  /\ queue = <<>>
  /\ result' = <<>>
  /\ phase' = "returned"
  /\ UNCHANGED <<start, cube, hist, pattern, reps, call, heap, threads, registry>>
  /\ UNCHANGED <<queue, visited>>

NextSolve ==
  \/ SolveEnter
  \/ SolveLevel
  \/ SolveExhausted

SpecSolve == InitSolve /\ [][NextSolve]_vars

\* the sequences of at most n names of the vocabulary
SequencesUpTo(n) == UNION {[1..k -> Vocabulary] : k \in 0..n}

\* seq applied to c gives a solved cube
Solves(c, seq) == rcs_is_solved(rcs_apply_move_sequence(c, seq))

(***************************************************************************)
(* C30.  When solve has returned and some sequence of at most max_depth    *)
(* moves solves the cube, the returned list is not empty unless the cube   *)
(* is solved, it solves the cube, and no shorter sequence does.            *)
(* (SpecSolve)                                                             *)
(***************************************************************************)
C30_SolveReturnsShortest ==
  (phase = "returned" /\ \E seq \in SequencesUpTo(call[2]) : Solves(cube, seq)) =>
    /\ result # <<>> \/ rcs_is_solved(cube)
    /\ Solves(cube, result)
    /\ \A seq \in SequencesUpTo(Len(result) - 1) : ~ Solves(cube, seq)

====
